---- MODULE Spec2Model ----
(***************************************************************************)
(* A model of .supremepower/orchestrator.py: load_config,                  *)
(* analyze_complexity, orchestrate and the module's __main__ block.        *)
(*                                                                         *)
(* Text is a sequence of one-character strings.  Numbers are counted in    *)
(* tenths, so the float 0.9 is 9, the float 0.5 is 5 and the JSON number 1 *)
(* is 10; Python compares a float with an int or a float exactly, so the   *)
(* order of the tenths is the order `>=` sees.  Only ASCII letters change  *)
(* under str.lower here; other characters are left alone.                  *)
(***************************************************************************)
EXTENDS Integers, Sequences, FiniteSets, TLC

VARIABLES
    name,        \* the module's __name__: "__main__" (run as a script) or "orchestrator" (imported)
    argv,        \* sys.argv: the script's name, then the arguments (texts)
    file,        \* what config.json beside the module holds now
    pc,          \* the statement the interpreter is at
    task,        \* orchestrate's parameter
    config,      \* orchestrate's local `config`
    complexity,  \* orchestrate's local `complexity`
    agent,       \* the caller's `agent`: what orchestrate last returned to it
    stdout,      \* the lines printed by the call in progress or last ended, and by main
    exc,         \* the exception that left orchestrate, "none" if none did
    opened,      \* whether open() was called on config.json in this process
    cur,         \* history: the call of orchestrate in progress or last ended
    prev         \* history: a call that returned before cur began

vars == <<name, argv, file, pc, task, config, complexity, agent, stdout, exc,
          opened, cur, prev>>

None == [type |-> "none"]

----------------------------------------------------------------------------
(* Text *)

LOWER == <<"a","b","c","d","e","f","g","h","i","j","k","l","m",
           "n","o","p","q","r","s","t","u","v","w","x","y","z">>
UPPER == <<"A","B","C","D","E","F","G","H","I","J","K","L","M",
           "N","O","P","Q","R","S","T","U","V","W","X","Y","Z">>

\* str.lower on one character
lower_char(c) ==
    IF \E i \in DOMAIN UPPER : UPPER[i] = c
    THEN LOWER[CHOOSE i \in DOMAIN UPPER : UPPER[i] = c]
    ELSE c

\* str.lower
str_lower(s) == [i \in DOMAIN s |-> lower_char(s[i])]

\* str.upper on one character, str.upper
upper_char(c) ==
    IF \E i \in DOMAIN LOWER : LOWER[i] = c
    THEN UPPER[CHOOSE i \in DOMAIN LOWER : LOWER[i] = c]
    ELSE c

str_upper(s) == [i \in DOMAIN s |-> upper_char(s[i])]

\* `sub in s` for two texts
str_contains(s, sub) ==
    \E i \in 0..(Len(s) - Len(sub)) : SubSeq(s, i + 1, i + Len(sub)) = sub

ARCHITECT == <<"a","r","c","h","i","t","e","c","t">>
SYSTEM == <<"s","y","s","t","e","m">>

----------------------------------------------------------------------------
(* JSON values, as json.load returns them *)

\* a JSON number n/10; true and false compare as 1 and 0
Num(n) == [type |-> "number", val |-> n]
NaN == [type |-> "nan"]
Str == [type |-> "str"]
Null == [type |-> "null"]
List == [type |-> "list"]
Dict(items) == [type |-> "dict", items |-> items]
Item(k, v) == [k |-> k, v |-> v]

Ok(v) == [ok |-> TRUE, val |-> v]
Raise(e) == [ok |-> FALSE, exc |-> e]

\* obj[key] for a string key
getitem(obj, key) ==
    IF obj.type = "dict"
    THEN IF \E it \in obj.items : it.k = key
         THEN Ok((CHOOSE it \in obj.items : it.k = key).v)
         ELSE Raise("KeyError")
    ELSE Raise("TypeError")

\* a bug: `>` for `>=`
ge_strict(score, value) ==
    CASE value.type = "number" -> Ok(score > value.val)
      [] value.type = "nan" -> Ok(FALSE)
      [] OTHER -> Raise("TypeError")

\* a bug: `<=` for `>=`
ge_reversed(score, value) ==
    CASE value.type = "number" -> Ok(score <= value.val)
      [] value.type = "nan" -> Ok(FALSE)
      [] OTHER -> Raise("TypeError")

\* score >= value, for a float score in tenths
ge(score, value) ==
    CASE value.type = "number" -> Ok(score >= value.val)
      [] value.type = "nan" -> Ok(FALSE)
      [] OTHER -> Raise("TypeError")

----------------------------------------------------------------------------
(* The inputs: task texts and contents of config.json *)

\* Thresholds run from -0.1 to MaxThreshold tenths
MaxThreshold == 11

T_EMPTY == <<>>
T_FIX_TYPO == <<"f","i","x"," ","t","y","p","o"," ","i","n"," ","r","e","a","d","m","e">>
T_DESIGN == <<"d","e","s","i","g","n"," ","t","h","e"," ","s","y","s","t","e","m"," ","a","r","c","h","i","t","e","c","t","u","r","e">>
T_REARCHITECT == <<"r","e","a","r","c","h","i","t","e","c","t">>
T_SYSTEMS == <<"s","y","s","t","e","m","s">>
T_ARCHITEC == <<"a","r","c","h","i","t","e","c">>
T_SYS_TEM == <<"s","y","s"," ","t","e","m">>
T_STEM == <<"s","t","e","m">>

SCRIPT == <<"o","r","c","h","e","s","t","r","a","t","o","r",".","p","y">>

BaseTasks == {T_EMPTY, T_FIX_TYPO, T_DESIGN, T_REARCHITECT, T_SYSTEMS,
              T_ARCHITEC, T_SYS_TEM, T_STEM, ARCHITECT, SYSTEM}

UpperAt(s, i) == [s EXCEPT ![i] = upper_char(s[i])]
Capitalize(s) == IF s = <<>> THEN s
                 ELSE <<upper_char(s[1])>> \o str_lower(SubSeq(s, 2, Len(s)))

CaseVariants(s) ==
    {s, str_upper(s), str_lower(s), Capitalize(s)} \cup {UpperAt(s, i) : i \in DOMAIN s}

Tasks == UNION {CaseVariants(b) : b \in BaseTasks}

CallTasks == {T_EMPTY, T_FIX_TYPO, T_DESIGN, str_upper(SYSTEM), Capitalize(T_ARCHITEC)}

CaseBases == {ARCHITECT, SYSTEM, T_SYS_TEM, T_STEM}

ThresholdValues == {Num(n) : n \in (0 - 1)..MaxThreshold} \cup {NaN, Str, Null}

ConfigDoc(v) ==
    Dict({Item("version", Str),
          Item("agents", Dict({Item("default", Dict({})),
                               Item("master_architect",
                                    Dict({Item("complexity_threshold", v)}))}))})

BrokenDocs ==
    {List, Dict({}),
     Dict({Item("agents", List)}),
     Dict({Item("agents", Dict({Item("default", Dict({}))}))}),
     Dict({Item("agents", Dict({Item("master_architect", Dict({}))}))}),
     Dict({Item("agents", Dict({Item("master_architect", Null)}))})}

Docs == BrokenDocs \cup {ConfigDoc(v) : v \in ThresholdValues}

Missing == [state |-> "missing"]
Malformed == [state |-> "malformed"]
Json(d) == [state |-> "json", doc |-> d]

Files == {Missing, Malformed} \cup {Json(d) : d \in Docs}

----------------------------------------------------------------------------
(* The functions of orchestrator.py *)

SCORE_HIGH == 9
SCORE_LOW == 5

\* a bug: a missing or unreadable configuration is replaced by a default one
load_config_default(f) ==
    IF f.state = "json" THEN Ok(f.doc) ELSE Ok(ConfigDoc(Num(SCORE_LOW)))

\* a bug: the configuration an earlier call loaded is kept and used again
load_config_cached(f) ==
    CASE prev.state = "returned" -> Ok(prev.seen.doc)
      [] f.state = "missing" -> Raise("FileNotFoundError")
      [] f.state = "malformed" -> Raise("JSONDecodeError")
      [] OTHER -> Ok(f.doc)

\* load_config(): open config.json and json.load it
load_config(f) ==
    CASE f.state = "missing" -> Raise("FileNotFoundError")
      [] f.state = "malformed" -> Raise("JSONDecodeError")
      [] OTHER -> Ok(f.doc)

\* a bug: the second token is not looked for
analyze_complexity_architect_only(task_description) ==
    IF str_contains(str_lower(task_description), ARCHITECT)
    THEN SCORE_HIGH
    ELSE SCORE_LOW

\* a bug: the two scores are returned the wrong way round
analyze_complexity_swapped(task_description) ==
    IF str_contains(str_lower(task_description), ARCHITECT)
       \/ str_contains(str_lower(task_description), SYSTEM)
    THEN SCORE_LOW
    ELSE SCORE_HIGH

\* a bug: the text is not lowered before the tokens are looked for
analyze_complexity_case_sensitive(task_description) ==
    IF str_contains(task_description, ARCHITECT)
       \/ str_contains(task_description, SYSTEM)
    THEN SCORE_HIGH
    ELSE SCORE_LOW

\* a bug: once a task went to the master architect, every later one scores high
analyze_complexity_sticky(task_description) ==
    IF agent = "master_architect"
       \/ str_contains(str_lower(task_description), ARCHITECT)
       \/ str_contains(str_lower(task_description), SYSTEM)
    THEN SCORE_HIGH
    ELSE SCORE_LOW

analyze_complexity(task_description) ==
    IF str_contains(str_lower(task_description), ARCHITECT)
       \/ str_contains(str_lower(task_description), SYSTEM)
    THEN SCORE_HIGH
    ELSE SCORE_LOW

\* config['agents']['master_architect']['complexity_threshold']
complexity_threshold(cfg) ==
    LET a == getitem(cfg, "agents") IN
    IF ~a.ok THEN a ELSE
    LET m == getitem(a.val, "master_architect") IN
    IF ~m.ok THEN m ELSE getitem(m.val, "complexity_threshold")

LINE_HIGH == <<"Activating Master Architect for high-complexity task.">>
LINE_LOW == <<"Task complexity standard. Using default agent.">>

\* the two branches of orchestrate's if: what is printed and what is returned
high_branch == [line |-> LINE_HIGH, agent |-> "master_architect"]
\* a bug: the else branch returns the other branch's label
low_branch_high_label == [line |-> LINE_LOW, agent |-> "master_architect"]
low_branch == [line |-> LINE_LOW, agent |-> "default"]

\* f"Orchestrator decision: {agent}"
decision_line(a) == <<"Orchestrator decision: ", a>>

----------------------------------------------------------------------------
(* The history of calls: what each call of orchestrate was given, what it  *)
(* read and what came of it                                                *)

NewCall(t) ==
    [task |-> t, state |-> "running", seen |-> None, threshold |-> None,
     score |-> 0, agent |-> "none", line |-> <<>>]

\* no call yet
NoCall == [NewCall(<<>>) EXCEPT !.state = "none"]

\* an exception leaves orchestrate: a traceback and exit status 1 for the
\* script, the caller's business for an importer
Raised(e) ==
    /\ exc' = e
    /\ pc' = IF name = "__main__" THEN "failed" ELSE "host"

\* orchestrate returns a
Returned(a) ==
    /\ agent' = a
    /\ pc' = IF name = "__main__" THEN "print_decision" ELSE "host"

----------------------------------------------------------------------------
(* The statements *)

\* a bug: the guard counts the script's name as an argument
Main_guard_off_by_one ==
    /\ pc = "main"
    /\ IF name = "__main__" /\ Len(argv) > 1
       THEN /\ task' = argv[2]
            /\ cur' = NewCall(argv[2])
            /\ pc' = "load"
            /\ UNCHANGED exc
       ELSE /\ pc' = IF name = "__main__" THEN "failed" ELSE "host"
            /\ exc' = IF name = "__main__" THEN "IndexError" ELSE exc
            /\ UNCHANGED <<task, cur>>
    /\ UNCHANGED <<name, argv, file, config, complexity, agent, stdout, opened, prev>>

\* if __name__ == "__main__": if len(sys.argv) > 1: task = sys.argv[1]; orchestrate(task)
Main ==
    /\ pc = "main"
    /\ IF name = "__main__" /\ Len(argv) > 1
       THEN /\ task' = argv[2]
            /\ cur' = NewCall(argv[2])
            /\ pc' = "load"
       ELSE /\ pc' = IF name = "__main__" THEN "exit" ELSE "host"
            /\ UNCHANGED <<task, cur>>
    /\ UNCHANGED <<name, argv, file, config, complexity, agent, stdout, exc, opened, prev>>

\* config = load_config()
LoadConfig ==
    /\ pc = "load"
    /\ opened' = TRUE
    /\ LET r == load_config(file) IN
       IF r.ok
       THEN /\ config' = r.val
            /\ pc' = "analyze"
            /\ cur' = [cur EXCEPT !.seen = file]
            /\ UNCHANGED exc
       ELSE /\ Raised(r.exc)
            /\ cur' = [cur EXCEPT !.seen = file, !.state = "raised"]
            /\ UNCHANGED config
    /\ UNCHANGED <<name, argv, file, task, complexity, agent, stdout, prev>>

\* complexity = analyze_complexity(task)
Analyze ==
    /\ pc = "analyze"
    /\ complexity' = analyze_complexity(task)
    /\ cur' = [cur EXCEPT !.score = complexity']
    /\ pc' = "decide"
    /\ UNCHANGED <<name, argv, file, task, config, agent, stdout, exc, opened, prev>>

\* if complexity >= config[...][...][...]: print; return  else: print; return
Decide ==
    /\ pc = "decide"
    /\ LET th == complexity_threshold(config) IN
       IF ~th.ok
       THEN /\ Raised(th.exc)
            /\ cur' = [cur EXCEPT !.state = "raised"]
            /\ UNCHANGED <<agent, stdout>>
       ELSE LET c == ge(complexity, th.val) IN
            IF ~c.ok
            THEN /\ Raised(c.exc)
                 /\ cur' = [cur EXCEPT !.state = "raised", !.threshold = th.val]
                 /\ UNCHANGED <<agent, stdout>>
            ELSE LET b == IF c.val THEN high_branch ELSE low_branch IN
                 /\ stdout' = Append(stdout, b.line)
                 /\ Returned(b.agent)
                 /\ cur' = [cur EXCEPT !.state = "returned", !.threshold = th.val,
                                       !.agent = b.agent, !.line = b.line]
                 /\ UNCHANGED exc
    /\ UNCHANGED <<name, argv, file, task, config, complexity, opened, prev>>

\* def orchestrate(task): its three statements, in order
orchestrate == LoadConfig \/ Analyze \/ Decide

\* print(f"Orchestrator decision: {agent}"), and the script ends
PrintDecision ==
    /\ pc = "print_decision"
    /\ stdout' = Append(stdout, decision_line(agent))
    /\ pc' = "exit"
    /\ UNCHANGED <<name, argv, file, task, config, complexity, agent, exc, opened, cur, prev>>

\* the exit status of a run that ended
exit_status == IF pc = "failed" THEN 1 ELSE 0

Ended == pc \in {"exit", "failed"}

----------------------------------------------------------------------------
(* An importer: code that imported the module calls orchestrate as often   *)
(* as it likes, and config.json may be rewritten between two calls         *)

\* orchestrate(t) is entered; p is the earlier call the history keeps
BeginCall(t, p) ==
    /\ task' = t
    /\ prev' = p
    /\ cur' = NewCall(t)
    /\ config' = None
    /\ complexity' = 0
    /\ exc' = "none"
    /\ stdout' = <<>>
    /\ pc' = "load"

\* the history keeps the call it kept, or the call that has just returned
HostCall ==
    /\ pc = "host"
    /\ \E t \in CallTasks :
         \E p \in {prev} \cup (IF cur.state = "returned" THEN {cur} ELSE {}) :
            BeginCall(t, p)
    /\ UNCHANGED <<name, argv, file, agent, opened>>

WriteConfig ==
    /\ pc = "host"
    /\ \E f \in Files : f # file /\ file' = f
    /\ UNCHANGED <<name, argv, pc, task, config, complexity, agent, stdout, exc,
                   opened, cur, prev>>

\* the same text with the case of its i-th character changed
ToggleCase(s, i) ==
    [s EXCEPT ![i] = IF lower_char(s[i]) = s[i] THEN upper_char(s[i]) ELSE lower_char(s[i])]

\* an importer that calls with one text and then with its case variants;
\* the history keeps the first call that returned
HostCallVariant ==
    /\ pc = "host"
    /\ LET p == IF prev.state = "none" /\ cur.state = "returned" THEN cur ELSE prev IN
       IF cur = NoCall
       THEN \E t \in CaseBases : BeginCall(t, p)
       ELSE \E i \in DOMAIN task : BeginCall(ToggleCase(task, i), p)
    /\ UNCHANGED <<name, argv, file, agent, opened>>

----------------------------------------------------------------------------
(* The specifications *)

InitLocals ==
    /\ pc = "main"
    /\ task = <<>>
    /\ config = None
    /\ complexity = 0
    /\ agent = "none"
    /\ stdout = <<>>
    /\ exc = "none"
    /\ opened = FALSE
    /\ cur = NoCall
    /\ prev = NoCall

\* python orchestrator.py [task]
Init ==
    /\ name = "__main__"
    /\ argv \in {<<SCRIPT>>} \cup {<<SCRIPT, t>> : t \in Tasks}
    /\ file \in Files
    /\ InitLocals

Next == Main \/ orchestrate \/ PrintDecision

Spec == Init /\ [][Next]_vars

\* import orchestrator, then calls of orchestrator.orchestrate
InitCalls ==
    /\ name = "orchestrator"
    /\ argv = <<SCRIPT>>
    /\ file \in Files
    /\ InitLocals

NextCalls == Main \/ HostCall \/ WriteConfig \/ orchestrate

SpecCalls == InitCalls /\ [][NextCalls]_vars

\* import orchestrator, then calls with the case variants of one text
CaseFiles == {Json(ConfigDoc(v)) : v \in ThresholdValues}

InitCase ==
    /\ name = "orchestrator"
    /\ argv = <<SCRIPT>>
    /\ file \in CaseFiles
    /\ InitLocals

NextCase == Main \/ HostCallVariant \/ orchestrate

SpecCase == InitCase /\ [][NextCase]_vars

----------------------------------------------------------------------------
(* The vocabulary of the claims *)

\* the lowercase form of t contains "architect" or "system"
MentionsToken(t) ==
    str_contains(str_lower(t), ARCHITECT) \/ str_contains(str_lower(t), SYSTEM)

\* s and t are the same letters, in whatever case
SameLetters(s, t) ==
    /\ Len(s) = Len(t)
    /\ \A i \in DOMAIN s :
          \/ s[i] = t[i]
          \/ \E k \in DOMAIN LOWER : {s[i], t[i]} = {LOWER[k], UPPER[k]}

\* config.json as f holds a value at agents.master_architect.complexity_threshold
HasThreshold(f) == f.state = "json" /\ complexity_threshold(f.doc).ok
ThresholdIn(f) == complexity_threshold(f.doc).val
IsNumber(v) == v.type = "number"

\* call c of orchestrate is over; it read the configuration c.seen
CallEnded(c) == c.state \in {"returned", "raised"}
\* c read a configuration whose threshold is a number or NaN
Comparable(c) ==
    /\ CallEnded(c)
    /\ HasThreshold(c.seen)
    /\ ThresholdIn(c.seen).type \in {"number", "nan"}
AtMost(c, n) == IsNumber(ThresholdIn(c.seen)) /\ ThresholdIn(c.seen).val <= n

\* the script was given a task argument
WithTask == name = "__main__" /\ Len(argv) > 1

----------------------------------------------------------------------------
(* The claims about one run of the script, under Spec *)

\* C1: a task whose lowercase form contains "architect" or "system" is routed to
\* "master_architect" under every configured threshold of at most 0.9.
C1_TokenToMasterArchitect ==
    (Comparable(cur) /\ MentionsToken(cur.task) /\ AtMost(cur, 9))
        => (cur.state = "returned" /\ cur.agent = "master_architect"
            /\ agent = "master_architect")

\* Scenario 1: "Design the system architecture" under threshold 0.9
C1_Witness ==
    /\ pc = "exit"
    /\ argv = <<SCRIPT, Capitalize(T_DESIGN)>>
    /\ ThresholdIn(file) = Num(9)
    /\ agent = "master_architect"

\* C2: a task whose lowercase form contains neither token (the empty text too) is
\* routed to "master_architect" under a threshold of at most 0.5 and to "default"
\* under every other threshold that a number can be compared with.
C2_NoTokenByThreshold ==
    (Comparable(cur) /\ ~MentionsToken(cur.task))
        => /\ cur.state = "returned"
           /\ agent = cur.agent
           /\ cur.agent = IF AtMost(cur, 5) THEN "master_architect" ELSE "default"

\* Scenario 2: "fix typo in readme" under threshold 0.9
C2_Witness ==
    /\ pc = "exit"
    /\ argv = <<SCRIPT, T_FIX_TYPO>>
    /\ ThresholdIn(file) = Num(9)
    /\ agent = "default"

\* C3: the comparison is inclusive: when the configured threshold equals the score
\* computed for the task (0.9 with a token, 0.5 without), the call returns
\* "master_architect", never "default".
C3_InclusiveBoundary ==
    (Comparable(cur) /\ IsNumber(ThresholdIn(cur.seen))
     /\ ThresholdIn(cur.seen).val = (IF MentionsToken(cur.task) THEN 9 ELSE 5))
        => (cur.state = "returned" /\ cur.score = ThresholdIn(cur.seen).val
            /\ agent = "master_architect")

\* Scenario 3: the empty text under threshold 0.5
C3_Witness ==
    /\ pc = "exit"
    /\ argv = <<SCRIPT, T_EMPTY>>
    /\ ThresholdIn(file) = Num(5)
    /\ cur.score = 5
    /\ agent = "master_architect"

\* the two lines of a run: the branch line, then the decision line naming the
\* label of that branch
TwoLines(out) ==
    /\ Len(out) = 2
    /\ \/ out = <<LINE_HIGH, <<"Orchestrator decision: ", "master_architect">> >>
       \/ out = <<LINE_LOW, <<"Orchestrator decision: ", "default">> >>

\* C5 as stated: every run with a task argument has written exactly the two
\* lines, branch line first, when it ends.
C5_Original == (WithTask /\ Ended) => TwoLines(stdout)

\* C5 as amended: a run with a task argument whose configuration holds a
\* threshold a number can be compared with ends normally having written exactly
\* the two lines, branch line first and the decision line naming that branch's
\* label; no run ever writes anything else, or the decision line first.
C5_TwoLinesInOrder ==
    /\ (WithTask /\ Ended /\ HasThreshold(file)
        /\ ThresholdIn(file).type \in {"number", "nan"})
          => (pc = "exit" /\ TwoLines(stdout))
    /\ pc = "exit" /\ WithTask => TwoLines(stdout)
    /\ pc = "failed" => stdout = <<>>
    /\ stdout \in {<<>>, <<LINE_HIGH>>, <<LINE_LOW>>} \/ TwoLines(stdout)
    /\ stdout # <<>> => stdout[1] = cur.line

C5_Witness ==
    /\ pc = "exit"
    /\ WithTask
    /\ stdout = <<LINE_LOW, <<"Orchestrator decision: ", "default">> >>

\* config.json is missing, is not JSON, or lacks the threshold
BadConfig(f) == ~HasThreshold(f)

\* C6: with a task argument and a configuration file that is missing, is not
\* valid JSON or lacks agents.master_architect.complexity_threshold, the error is
\* not caught: the run ends failed (exit status 1), no agent is returned and
\* neither line is printed at any point of the run.
C6_ConfigErrorFailsRun ==
    (WithTask /\ BadConfig(file))
        => /\ stdout = <<>>
           /\ agent = "none"
           /\ pc \in {"main", "load", "analyze", "decide", "failed"}
           /\ Ended => (exit_status = 1 /\ cur.state = "raised"
                        /\ exc \in {"FileNotFoundError", "JSONDecodeError",
                                    "KeyError", "TypeError"})
           /\ ~Ended => ENABLED Next

\* Scenario 4: the configuration file is missing
C6_Witness ==
    /\ WithTask
    /\ file = Missing
    /\ pc = "failed"
    /\ exc = "FileNotFoundError"
    /\ stdout = <<>>

\* C7: without a task argument the script does nothing: config.json is never
\* opened, nothing is printed, and the run ends with exit status 0, also when
\* config.json is missing or malformed.
C7_NoArgumentNoAction ==
    (name = "__main__" /\ Len(argv) <= 1)
        => /\ ~opened
           /\ stdout = <<>>
           /\ cur = NoCall
           /\ pc \in {"main", "exit"}
           /\ Ended => exit_status = 0

C7_Witness ==
    /\ name = "__main__"
    /\ Len(argv) = 1
    /\ file \in {Missing, Malformed}
    /\ pc = "exit"
    /\ ~opened

----------------------------------------------------------------------------
(* The claims about several calls in one process, under SpecCalls and      *)
(* SpecCase; prev is any call that returned before cur began               *)

BothReturned == prev.state = "returned" /\ cur.state = "returned"

\* C4: two task texts that differ only in letter case get the same score, and
\* so the same agent under the same threshold; every case variant of
\* "architect" and of "system" scores 0.9.
C4_CaseInsensitive ==
    /\ (BothReturned /\ SameLetters(prev.task, cur.task))
          => /\ prev.score = cur.score
             /\ prev.threshold = cur.threshold => prev.agent = cur.agent
    /\ (cur.state = "returned"
        /\ (SameLetters(cur.task, ARCHITECT) \/ SameLetters(cur.task, SYSTEM)))
          => cur.score = 9

\* "architect" first, then "ARCHITECT" after nine calls
C4_Witness ==
    /\ BothReturned
    /\ prev.task = ARCHITECT
    /\ cur.task = str_upper(ARCHITECT)
    /\ prev.score = 9
    /\ cur.score = 9
    /\ cur.agent = prev.agent

\* C8 as stated: every call in one process decides against the same threshold
\* value, also when config.json changed between two calls.
C8_Original == BothReturned => cur.threshold = prev.threshold

\* C8 as amended: every call of orchestrate loads the configuration, once, and
\* decides against the threshold config.json held when that call read it; two
\* calls decide against the same threshold when the file held the same content
\* at both reads.
C8_LoadedByEachCall ==
    /\ cur.state = "returned"
          => (HasThreshold(cur.seen) /\ cur.threshold = ThresholdIn(cur.seen))
    /\ pc \in {"analyze", "decide"}
          => (cur.seen = file /\ file.state = "json" /\ config = file.doc)
    /\ (BothReturned /\ prev.seen = cur.seen) => prev.threshold = cur.threshold

\* two calls, the file rewritten in between, two thresholds
C8_Witness ==
    /\ BothReturned
    /\ prev.seen # cur.seen
    /\ prev.threshold = Num(9)
    /\ cur.threshold = Num(5)
    /\ prev.task = cur.task
    /\ prev.agent # cur.agent

\* C9: two calls with the same task and the same configured threshold return the
\* same label and print the same branch line, whatever was called before, and a
\* computed score is 0.5 or 0.9.
C9_PureDecision ==
    /\ (BothReturned /\ prev.task = cur.task /\ prev.threshold = cur.threshold)
          => (prev.agent = cur.agent /\ prev.line = cur.line /\ prev.score = cur.score)
    /\ (pc = "decide" \/ cur.state = "returned")
          => (cur.score \in {5, 9} /\ complexity = cur.score)

\* the same task under the same threshold at two moments of one process
C9_Witness ==
    /\ BothReturned
    /\ prev.task = T_FIX_TYPO
    /\ cur.task = T_FIX_TYPO
    /\ prev.threshold = Num(9)
    /\ cur.threshold = Num(9)
    /\ cur.agent = "default"
    /\ prev.agent = "default"
    /\ agent = "default"

\* C10: above 0.9 every task goes to "default"; a task that goes to
\* "master_architect" under t does so under every t' <= t; under one threshold no
\* task with a token goes to "default" while one without goes to
\* "master_architect".
C10_Monotone ==
    /\ (cur.state = "returned" /\ IsNumber(cur.threshold) /\ cur.threshold.val > 9)
          => cur.agent = "default"
    /\ (BothReturned /\ prev.task = cur.task
        /\ IsNumber(prev.threshold) /\ IsNumber(cur.threshold))
          => /\ (cur.threshold.val <= prev.threshold.val
                 /\ prev.agent = "master_architect") => cur.agent = "master_architect"
             /\ (prev.threshold.val <= cur.threshold.val
                 /\ cur.agent = "master_architect") => prev.agent = "master_architect"
    /\ (BothReturned /\ prev.threshold = cur.threshold)
          => /\ ~(MentionsToken(prev.task) /\ prev.agent = "default"
                  /\ ~MentionsToken(cur.task) /\ cur.agent = "master_architect")
             /\ ~(MentionsToken(cur.task) /\ cur.agent = "default"
                  /\ ~MentionsToken(prev.task) /\ prev.agent = "master_architect")

\* one task under 0.9 and then under 0.5, and both times the master architect
C10_Witness ==
    /\ BothReturned
    /\ prev.task = cur.task
    /\ MentionsToken(cur.task)
    /\ prev.threshold = Num(9)
    /\ cur.threshold = Num(5)
    /\ prev.agent = "master_architect"
    /\ cur.agent = "master_architect"

====
